---- MODULE Spec2Model ----
(***************************************************************************)
(* Model of src/App.tsx: the MediaPipe onResults callback that turns hand  *)
(* landmarks into pinch stamps and fist-dwell grid shifts over the voxel   *)
(* set, and the clearCanvas button handler.                                *)
(*                                                                         *)
(* Numbers.  The code computes in IEEE doubles; the model computes the     *)
(* same expressions exactly, on a lattice of inputs:                       *)
(*   - a normalized landmark coordinate c in [0,1] is the integer          *)
(*     c * Unit (Unit = 128000);                                           *)
(*   - a canvas pixel coordinate p is the integer p * PxScale (1/1600 px), *)
(*     so that (1 - x) * 1280 and y * 720 are exact integers;              *)
(*   - a timestamp is Date.now() in milliseconds.                          *)
(* Distances are compared squared (sqrt(a) < d  <=>  a < d*d for d > 0).   *)
(* A voxel key is the JavaScript string `${gx},${gy}`, modelled as the     *)
(* sequence of its characters.                                             *)
(***************************************************************************)
EXTENDS Integers, Sequences, FiniteSets, TLC

VARIABLES
    voxels,         \* voxelsRef.current : Set<string>
    fistStartTime,  \* fistStartTimeRef.current : number | null
    isGrabbing,     \* isGrabbingRef.current : boolean
    lastHandPos,    \* lastHandPosRef.current : {x, y} | null
    now,            \* Date.now() at the last processed frame
    nFrames,        \* number of frames delivered so far (bounded by MaxFrames)
    last,           \* which handler ran last: "init", "frame" or "clear"
    trace,          \* history: one record per hand processed by the last frame
    seen,           \* history: per physical hand, what the frames showed of it
    fresh,          \* history: the cells a store created at the last clear holds
    wiped,          \* history: the keys the last clear removed (kept when .on)
    grab            \* history: the grab in progress (kept when .on)

vars == <<voxels, fistStartTime, isGrabbing, lastHandPos, now, nFrames, last,
          trace, seen, fresh, wiped, grab>>

----------------------------------------------------------------------------
(* Bounds of the model *)

MaxFrames == 5

(* Program constants *)

gridSize == 40
canvasWidth == 1280
canvasHeight == 720
dwellMs == 1000

(* Scales of the integer lattice *)

Unit == 128 * 1000
PxScale == 16 * 100
gridSizePx == gridSize * PxScale
pinchThreshold == (4 * Unit) \div 100     \* 0.04
fistThreshold == (15 * Unit) \div 100     \* 0.15

null == <<>>
Abs(n) == IF n < 0 THEN -n ELSE n

----------------------------------------------------------------------------
(* JavaScript primitives used by the handler *)

\* Math.floor(num / den) for den > 0
MathFloor(num, den) == num \div den

\* a rounding that truncates downwards instead of to the nearest integer
MathRoundDown(num, den) == num \div den

\* Math.round(num / den) for den > 0: nearest integer, halves towards +Infinity
MathRound(num, den) == (2 * num + den) \div (2 * den)

DigitChars == <<"0", "1", "2", "3", "4", "5", "6", "7", "8", "9">>

RECURSIVE NatToString(_)
NatToString(n) ==
    IF n < 10 THEN <<DigitChars[n + 1]>>
    ELSE NatToString(n \div 10) \o <<DigitChars[(n % 10) + 1]>>

\* String(n) as done by a template literal `${n}` for an integer n
NumberToString(n) == IF n < 0 THEN <<"-">> \o NatToString(-n) ELSE NatToString(n)

\* the template literal `${gx},${gy}`
KeyOf(gx, gy) == NumberToString(gx) \o <<",">> \o NumberToString(gy)

RECURSIVE Split(_, _)
\* s.split(',') with `cur` the piece being read
Split(s, cur) ==
    IF s = <<>> THEN <<cur>>
    ELSE IF Head(s) = "," THEN <<cur>> \o Split(Tail(s), <<>>)
    ELSE Split(Tail(s), Append(cur, Head(s)))

RECURSIVE DigitsToNat(_, _)
DigitsToNat(s, acc) ==
    IF s = <<>> THEN acc
    ELSE DigitsToNat(Tail(s),
                     10 * acc + ((CHOOSE i \in 1..10 : DigitChars[i] = Head(s)) - 1))

\* Number(str) for the decimal strings the handler produces
Number(s) ==
    IF s # <<>> /\ Head(s) = "-" THEN -DigitsToNat(Tail(s), 0) ELSE DigitsToNat(s, 0)

\* const [gx, gy] = key.split(',').map(Number)
ParseKey(key) ==
    LET parts == Split(key, <<>>) IN <<Number(parts[1]), Number(parts[2])>>

----------------------------------------------------------------------------
(* Inputs: what the landmark source hands to onResults *)

\* Physical hands in front of the camera.  The identity is not visible to the
\* code (multiHandLandmarks is a plain array); it is kept to state per-hand claims.
HandIds == {"A", "B"}

\* Fingertip positions relative to the wrist, in normalized lattice units.
\*   open      : no finger within 0.15 of the wrist, thumb far from the index tip
\*   pinch     : index tip 0.2 from the wrist, thumb tip 0.003 from the index tip
\*   fist      : four fingertips within 0.10 of the wrist, thumb 0.08 from index
\*   fistPinch : the fist, with the thumb tip 0.01 from the index tip
\*   edge      : index tip exactly 0.15 from the wrist and thumb tip exactly 0.04
\*               from the index tip (neither threshold is met)
PoseOffsets ==
    [open      |-> [thumbTip  |-> <<-12000, -15000>>, indexTip |-> <<0, -30000>>,
                    middleTip |-> <<2000, -32000>>,   ringTip  |-> <<4000, -30000>>,
                    pinkyTip  |-> <<6000, -26000>>],
     pinch     |-> [thumbTip  |-> <<0, -26000>>,      indexTip |-> <<0, -25616>>,
                    middleTip |-> <<3000, -30000>>,   ringTip  |-> <<5000, -29000>>,
                    pinkyTip  |-> <<7000, -25000>>],
     fist      |-> [thumbTip  |-> <<-8000, -6000>>,   indexTip |-> <<0, -12800>>,
                    middleTip |-> <<2000, -12000>>,   ringTip  |-> <<4000, -11000>>,
                    pinkyTip  |-> <<6000, -10000>>],
     fistPinch |-> [thumbTip  |-> <<-1000, -12000>>,  indexTip |-> <<0, -12800>>,
                    middleTip |-> <<2000, -12000>>,   ringTip  |-> <<4000, -11000>>,
                    pinkyTip  |-> <<6000, -10000>>],
     edge      |-> [thumbTip  |-> <<0, -14080>>,      indexTip |-> <<0, -19200>>,
                    middleTip |-> <<2000, -12000>>,   ringTip  |-> <<4000, -11000>>,
                    pinkyTip  |-> <<6000, -10000>>]]

Poses == DOMAIN PoseOffsets

Plus(p, q) == <<p[1] + q[1], p[2] + q[2]>>

\* landmarks[0], [4], [8], [12], [16], [20] of one hand
Landmarks(hand) ==
    LET o == PoseOffsets[hand.pose] IN
    [wrist     |-> hand.wrist,
     thumbTip  |-> Plus(hand.wrist, o.thumbTip),
     indexTip  |-> Plus(hand.wrist, o.indexTip),
     middleTip |-> Plus(hand.wrist, o.middleTip),
     ringTip   |-> Plus(hand.wrist, o.ringTip),
     pinkyTip  |-> Plus(hand.wrist, o.pinkyTip)]

----------------------------------------------------------------------------
(* onResults, one hand: the body of multiHandLandmarks.forEach *)

\* getDistance(p1, p2) squared
getDistanceSq(p1, p2) ==
    (p1[1] - p2[1]) * (p1[1] - p2[1]) + (p1[2] - p2[2]) * (p1[2] - p2[2])

\* the x mapping without the mirror flip
mappedXUnmirrored(lm) == lm.indexTip[1] * ((canvasWidth * PxScale) \div Unit)

\* (1 - indexTip.x) * canvasElement.width, in lattice pixels
mappedX(lm) == (Unit - lm.indexTip[1]) * ((canvasWidth * PxScale) \div Unit)
\* indexTip.y * canvasElement.height
mappedY(lm) == lm.indexTip[2] * ((canvasHeight * PxScale) \div Unit)
mappedWristX(lm) == (Unit - lm.wrist[1]) * ((canvasWidth * PxScale) \div Unit)
mappedWristY(lm) == lm.wrist[2] * ((canvasHeight * PxScale) \div Unit)

\* dist < 0.04
isPinching(lm) ==
    getDistanceSq(lm.thumbTip, lm.indexTip) < pinchThreshold * pinchThreshold

\* fingerDists.every(d => d < 0.15)
isFist(lm) ==
    \A tip \in {lm.indexTip, lm.middleTip, lm.ringTip, lm.pinkyTip} :
        getDistanceSq(tip, lm.wrist) < fistThreshold * fistThreshold

\* !fistStartTimeRef.current : null and 0 are both falsy
NoFistStart(ref) == ref = null \/ ref = <<0>>

\* Date.now() - fistStartTimeRef.current > 1000
DwellElapsed(t, start) == t - start > dwellMs

\* a release that forgets the timer and the flag but keeps the anchor
FistLogicKeepsAnchor(st, fist, t) ==
    IF fist
    THEN IF NoFistStart(st.fistStartTime)
         THEN [st EXCEPT !.fistStartTime = <<t>>]
         ELSE IF DwellElapsed(t, st.fistStartTime[1])
              THEN [st EXCEPT !.isGrabbing = TRUE]
              ELSE st
    ELSE [st EXCEPT !.fistStartTime = null, !.isGrabbing = FALSE]

\* a release that resets nothing
FistLogicSticky(st, fist, t) ==
    IF fist
    THEN IF NoFistStart(st.fistStartTime)
         THEN [st EXCEPT !.fistStartTime = <<t>>]
         ELSE IF DwellElapsed(t, st.fistStartTime[1])
              THEN [st EXCEPT !.isGrabbing = TRUE]
              ELSE st
    ELSE st

\* step 4, first statement: the dwell timer
FistLogic(st, fist, t) ==
    IF fist
    THEN IF NoFistStart(st.fistStartTime)
         THEN [st EXCEPT !.fistStartTime = <<t>>]
         ELSE IF DwellElapsed(t, st.fistStartTime[1])
              THEN [st EXCEPT !.isGrabbing = TRUE]
              ELSE st
    ELSE [st EXCEPT !.fistStartTime = null, !.isGrabbing = FALSE,
                    !.lastHandPos = null]

\* a threshold of half a cell
MovedHalfCell(dx, dy) == Abs(dx) > gridSizePx \div 2 \/ Abs(dy) > gridSizePx \div 2

\* a threshold of two cells
MovedPastTwoCells(dx, dy) == Abs(dx) > 2 * gridSizePx \/ Abs(dy) > 2 * gridSizePx

\* a threshold that a move of exactly one cell meets
MovedToCell(dx, dy) == Abs(dx) >= gridSizePx \/ Abs(dy) >= gridSizePx

\* Math.abs(dx) > gridSize || Math.abs(dy) > gridSize
MovedPastCell(dx, dy) == Abs(dx) > gridSizePx \/ Abs(dy) > gridSizePx

\* a shift that drops the keys leaving the non-negative quadrant
ShiftVoxelsClip(S, shiftX, shiftY) ==
    { KeyOf(ParseKey(key)[1] + shiftX, ParseKey(key)[2] + shiftY) :
        key \in { k \in S : ParseKey(k)[1] + shiftX >= 0 /\ ParseKey(k)[2] + shiftY >= 0 } }

\* newVoxels built from voxelsRef.current.forEach(...)
ShiftVoxels(S, shiftX, shiftY) ==
    { KeyOf(ParseKey(key)[1] + shiftX, ParseKey(key)[2] + shiftY) : key \in S }

\* a stamp that toggles the cell
SetAddToggle(S, key) == IF key \in S THEN S \ {key} ELSE S \cup {key}

\* voxelsRef.current.add(key)
SetAdd(S, key) == S \cup {key}

\* the key built from the index fingertip
StampKey(lm) == KeyOf(MathFloor(mappedX(lm), gridSizePx), MathFloor(mappedY(lm), gridSizePx))

NoCmd == <<"none">>

\* step 4, second statement: move the grid or stamp a voxel.
\* Returns the state and the command issued to the voxel set.
GrabOrStamp(st, lm) ==
    IF st.isGrabbing
    THEN LET currentHandPos == <<mappedWristX(lm), mappedWristY(lm)>> IN
         IF st.lastHandPos # null
         THEN LET dx == currentHandPos[1] - st.lastHandPos[1]
                  dy == currentHandPos[2] - st.lastHandPos[2]
                  shiftX == MathRound(dx, gridSizePx)
                  shiftY == MathRound(dy, gridSizePx)
              IN IF MovedPastCell(dx, dy) /\ (shiftX # 0 \/ shiftY # 0)
                 THEN [st  |-> [st EXCEPT !.voxels = ShiftVoxels(st.voxels, shiftX, shiftY),
                                          !.lastHandPos = currentHandPos],
                       cmd |-> <<"shiftAll", shiftX, shiftY>>]
                 ELSE [st |-> st, cmd |-> NoCmd]
         ELSE [st |-> [st EXCEPT !.lastHandPos = currentHandPos], cmd |-> NoCmd]
    ELSE IF isPinching(lm)
         THEN [st  |-> [st EXCEPT !.voxels = SetAdd(st.voxels, StampKey(lm))],
               cmd |-> <<"stamp", StampKey(lm)>>]
         ELSE [st |-> st, cmd |-> NoCmd]

Carry(st) == [fistStartTime |-> st.fistStartTime, isGrabbing |-> st.isGrabbing,
              lastHandPos |-> st.lastHandPos]

\* One hand of the frame.  `entry` is the history record of this hand.
HandStep(st, hand, t) ==
    LET lm == Landmarks(hand)
        s1 == FistLogic(st, isFist(lm), t)
        r  == GrabOrStamp(s1, lm)
    IN [st    |-> r.st,
        entry |-> [id |-> hand.id, pose |-> hand.pose, wrist |-> hand.wrist,
                   isFist |-> isFist(lm), isPinching |-> isPinching(lm),
                   pre |-> Carry(st),
                   grabbing |-> s1.isGrabbing, anchor |-> s1.lastHandPos,
                   pos |-> <<mappedWristX(lm), mappedWristY(lm)>>,
                   tip |-> <<mappedX(lm), mappedY(lm)>>,
                   cmd |-> r.cmd, before |-> st.voxels, after |-> r.st.voxels,
                   post |-> Carry(r.st)]]

RECURSIVE ForEachHand(_, _, _, _)
\* results.multiHandLandmarks.forEach(...), in array order
ForEachHand(st, hands, t, log) ==
    IF hands = <<>> THEN [st |-> st, log |-> log]
    ELSE LET r == HandStep(st, Head(hands), t) IN
         ForEachHand(r.st, Tail(hands), t, Append(log, r.entry))

----------------------------------------------------------------------------
(* History kept beside the program state, to state claims about single hands *)

\* What the frames showed of one physical hand:
\*   runStart : time of the first frame of its current unbroken run of frames
\*              in which it was classified as a fist (null when the last frame
\*              did not show it as a fist)
\*   grab     : isGrabbingRef.current as read while it was processed last
\*   pos      : its wrist pixel position in the last frame (null when absent)
Unseen == [runStart |-> null, grab |-> FALSE, pos |-> null]

Observe(old, e, t) ==
    [runStart |-> IF e.isFist
                  THEN (IF old.runStart = null THEN <<t>> ELSE old.runStart)
                  ELSE null,
     grab     |-> e.grabbing,
     pos      |-> e.pos]

\* wiped and grab are kept only in the specifications whose claims read them:
\* elsewhere their field `on` is FALSE from the start and they never change.
\* No grab in progress (no anchor held):
NoGrab(on) == [on |-> on, held |-> FALSE, origin |-> null, sum |-> <<0, 0>>, n |-> 0]

\* the cell of a pixel position
CellOf(p) == <<MathFloor(p[1], gridSizePx), MathFloor(p[2], gridSizePx)>>

MovedBy(S, dx, dy) == { <<p[1] + dx, p[2] + dy>> : p \in S }

RECURSIVE Replay(_, _)
\* The commands of a frame applied, in order, to a store of integer cells:
\* a stamp adds the cell under the fingertip, a shift translates every cell.
Replay(F, log) ==
    IF log = <<>> THEN F
    ELSE LET e == Head(log) IN
         Replay(CASE e.cmd[1] = "stamp" -> F \cup {CellOf(e.tip)}
                  [] e.cmd[1] = "shiftAll" -> MovedBy(F, e.cmd[2], e.cmd[3])
                  [] OTHER -> F,
                Tail(log))

RECURSIVE Track(_, _)
\* The grab in progress: from the entry that sets the anchor, the anchor first
\* set (origin), the sum of the shifts issued since (sum, in cells) and their
\* number (n); NoGrab while no anchor is held.
Track(g, log) ==
    IF log = <<>> \/ ~g.on THEN g
    ELSE LET e == Head(log) IN
         Track(IF e.post.lastHandPos = null THEN NoGrab(TRUE)
               ELSE IF ~g.held
                    THEN [on |-> TRUE, held |-> TRUE, origin |-> e.post.lastHandPos,
                          sum |-> <<0, 0>>, n |-> 0]
                    ELSE IF e.cmd[1] = "shiftAll"
                         THEN [g EXCEPT !.sum = <<g.sum[1] + e.cmd[2], g.sum[2] + e.cmd[3]>>,
                                        !.n = g.n + 1]
                         ELSE g,
               Tail(log))

EntryOf(log, id) == log[CHOOSE i \in 1..Len(log) : log[i].id = id]
Present(log, id) == \E i \in 1..Len(log) : log[i].id = id

----------------------------------------------------------------------------
(* Handlers *)

State == [voxels |-> voxels, fistStartTime |-> fistStartTime,
          isGrabbing |-> isGrabbing, lastHandPos |-> lastHandPos]

\* hands.onResults(onResults): one frame of `hands` (zero, one or two hands, in
\* the order of results.multiHandLandmarks) delivered dt ms after the last one.
\* Date.now() is read once per hand; the reads of one frame are taken to give
\* the same millisecond t.
\* The canvas and its 2d context exist whenever the callback runs (the canvas
\* is rendered unconditionally and the callback is registered after mount), so
\* the two early returns are not taken.
onResults(hands, dt) ==
    /\ nFrames < MaxFrames
    /\ \E t \in {now + dt} : \E r \in {ForEachHand(State, hands, t, <<>>)} :
          /\ voxels' = r.st.voxels
          /\ fistStartTime' = r.st.fistStartTime
          /\ isGrabbing' = r.st.isGrabbing
          /\ lastHandPos' = r.st.lastHandPos
          /\ now' = t
          /\ trace' = [i \in 1..Len(r.log) |->
                          r.log[i] @@ [prev |-> seen[r.log[i].id]]]
          /\ seen' = [id \in HandIds |->
                         IF Present(r.log, id)
                         THEN Observe(seen[id], EntryOf(r.log, id), t)
                         ELSE Unseen]
          /\ fresh' = Replay(fresh, r.log)
          /\ grab' = Track(grab, r.log)
    /\ nFrames' = nFrames + 1
    /\ last' = "frame"
    /\ UNCHANGED wiped

\* a clear that leaves the keys with a negative column behind
clearCanvasOnScreen ==
    /\ voxels' = { k \in voxels : ParseKey(k)[1] < 0 }
    /\ last' = "clear"
    /\ trace' = <<>>
    /\ fresh' = {}
    /\ wiped' = (IF wiped.on THEN [wiped EXCEPT !.keys = voxels] ELSE wiped)
    /\ UNCHANGED <<fistStartTime, isGrabbing, lastHandPos, now, nFrames, seen, grab>>

\* the "Clear All" button
clearCanvas ==
    /\ voxels' = {}
    /\ last' = "clear"
    /\ trace' = <<>>
    /\ fresh' = {}
    /\ wiped' = (IF wiped.on THEN [wiped EXCEPT !.keys = voxels] ELSE wiped)
    /\ UNCHANGED <<fistStartTime, isGrabbing, lastHandPos, now, nFrames, seen, grab>>

----------------------------------------------------------------------------
(* Frames offered to the handler *)

\* Wrist positions (normalized lattice).  Seen on the mirrored canvas, from W0:
\*   W25  25 px to the right      W40  exactly 40 px (one cell) to the right
\*   W50  50 px to the right      W60L 60 px to the left
\*   W50D 50 px to the right and 28.125 px down
W0 == <<64000, 90000>>
W25 == <<61500, 90000>>
W40 == <<60000, 90000>>
W50 == <<59000, 90000>>
W60L == <<70000, 90000>>
W50D == <<59000, 95000>>
WB == <<30000, 60000>>
WB2 == <<63000, 91000>>

\* Time between two frames, ms
Deltas == {500, 1001}

HandsOf(id, poses, wrists) ==
    { [id |-> id, pose |-> p, wrist |-> w] : p \in poses, w \in wrists }

\* zero, one or two hands, in either array order
FramesOf(as, bs) ==
    {<<>>} \cup { <<a>> : a \in as } \cup { <<b>> : b \in bs }
    \cup { <<a, b>> : a \in as, b \in bs } \cup { <<b, a>> : a \in as, b \in bs }

StartTime == 5 * dwellMs

Init ==
    /\ voxels = {}
    /\ fistStartTime = null
    /\ isGrabbing = FALSE
    /\ lastHandPos = null
    /\ now = StartTime
    /\ nFrames = 0
    /\ last = "init"
    /\ trace = <<>>
    /\ seen = [id \in HandIds |-> Unseen]
    /\ fresh = {}
    /\ wiped = [on |-> FALSE, keys |-> {}]
    /\ grab = NoGrab(FALSE)

\* Gestures of two hands at fixed places: dwell, release, classification
Frames == FramesOf(HandsOf("A", {"open", "fist", "fistPinch"}, {W0}),
                   HandsOf("B", {"open", "fist"}, {WB}))

\* A fist that moves, with a second fist that may come into view
GrabFrames == FramesOf(HandsOf("A", {"fist"}, {W0, W25, W40, W50, W60L, W50D})
                          \cup HandsOf("A", {"open", "pinch"}, {W0}), {})
              \cup FramesOf(HandsOf("A", {"fist"}, {W0}), HandsOf("B", {"fist"}, {WB}))

\* Pinches at several cells, by one hand or by two (WB2 maps to the cell of W0)
PinchFrames == FramesOf(HandsOf("A", {"pinch"}, {W0, W40, W50D})
                           \cup HandsOf("A", {"open", "fist", "edge"}, {W0}),
                        HandsOf("B", {"pinch"}, {WB2}))

Next ==
    \/ \E hands \in Frames, dt \in Deltas : onResults(hands, dt)
    \/ clearCanvas

NextGrab ==
    \/ \E hands \in GrabFrames, dt \in Deltas : onResults(hands, dt)
    \/ clearCanvas

NextPinch ==
    \/ \E hands \in PinchFrames, dt \in Deltas : onResults(hands, dt)
    \/ clearCanvas

Spec == Init /\ [][Next]_vars
SpecGrab == Init /\ [][NextGrab]_vars
SpecPinch == Init /\ [][NextPinch]_vars

----------------------------------------------------------------------------
(* Vocabulary of the claims *)

\* the carried state as it stands after the last handler
CarryNow == [fistStartTime |-> fistStartTime, isGrabbing |-> isGrabbing,
             lastHandPos |-> lastHandPos]
CarryReset == [fistStartTime |-> null, isGrabbing |-> FALSE, lastHandPos |-> null]

Entries == { trace[i] : i \in 1..Len(trace) }

\* the hand of entry e has shown a fist in every frame of an interval of more
\* than 1000 ms that ends at the last frame
OwnDwellDone(e) ==
    /\ seen[e.id].runStart # null
    /\ now - seen[e.id].runStart[1] > dwellMs

\* C1  Dwell gating (safety): a hand is processed with grabbing = true only if
\* that hand has been a fist in every processed frame over more than 1000 ms
\* ending at the current frame (frames with no hand and with two hands included).
C1_DwellGating ==
    \A e \in Entries : e.grabbing => OwnDwellDone(e)

\* C2  Dwell gating (response): a hand that has been a fist in every processed
\* frame from t0 to the current frame t1, with t1 - t0 > 1000 ms, is grabbing
\* after the frame at t1.
C2_DwellResponse ==
    \A e \in Entries : (e.isFist /\ OwnDwellDone(e)) => e.grabbing

\* C3  Release cancels grab: a frame in which a grabbing hand is not a fist
\* leaves fistStartTime = null, grabbing = false and lastAnchor = null, and the
\* hand grabs again only after a fresh unbroken run of fist frames of its own
\* spanning more than 1000 ms.
C3_ReleaseCancelsGrab ==
    /\ (\E e \in Entries : e.prev.grab /\ ~e.isFist) => CarryNow = CarryReset
    /\ \A e \in Entries : (e.grabbing /\ ~e.prev.grab) => OwnDwellDone(e)

\* C4  Grab precedence over pinch: a hand that meets both the fist and the
\* pinch condition issues no stamp, grabbing or still dwelling.
C4_FistOverridesPinch ==
    \A e \in Entries : (e.isFist /\ e.isPinching) => e.cmd[1] # "stamp"

\* C5  Zero-hand frame: a frame without hands leaves the voxel set unchanged
\* and resets the carried state as a non-fist frame does.
C5_ZeroHandFrameResets ==
    [][(last' = "frame" /\ nFrames' = nFrames + 1 /\ trace' = <<>>)
         => (voxels' = voxels /\ fistStartTime' = null /\ isGrabbing' = FALSE
             /\ lastHandPos' = null)]_vars

\* C6  Per-hand independence: in a frame of two hands, processing the second
\* hand leaves the first hand's timer, flag and anchor as the first hand's own
\* processing left them, and each hand grabs exactly when its own fist has
\* lasted more than 1000 ms.
C6_PerHandIndependence ==
    Len(trace) = 2 =>
        /\ trace[1].post = CarryNow
        /\ \A e \in Entries : e.grabbing <=> (e.isFist /\ OwnDwellDone(e))

----------------------------------------------------------------------------
(* Claims about the grab tracker and the voxel set *)

\* wrist pixel position of a hand whose wrist is at w
WristPx(w) == <<mappedWristX([wrist |-> w]), mappedWristY([wrist |-> w])>>

DX(e) == e.pos[1] - e.anchor[1]
DY(e) == e.pos[2] - e.anchor[2]
WithinCell(e) == Abs(DX(e)) <= gridSizePx /\ Abs(DY(e)) <= gridSizePx

\* n is d / gridSize rounded to the nearest integer (halves upwards)
IsNearest(n, d) ==
    /\ 2 * gridSizePx * n - gridSizePx <= 2 * d
    /\ 2 * d < 2 * gridSizePx * n + gridSizePx

Pairs(S) == { ParseKey(key) : key \in S }

\* C7  Sub-cell hysteresis: while a hand is grabbing with an anchor set, a
\* frame whose wrist is within one cell of the anchor on both axes issues no
\* shiftAll and keeps the anchor, and a frame whose wrist is more than one cell
\* from the anchor issues one shiftAll and moves the anchor to the wrist (so
\* the next frame at the same place issues none).
C7_SubCellHysteresis ==
    \A e \in Entries : (e.grabbing /\ e.anchor # null) =>
        IF WithinCell(e)
        THEN e.cmd = NoCmd /\ e.post.lastHandPos = e.anchor
        ELSE e.cmd[1] = "shiftAll" /\ e.post.lastHandPos = e.pos

\* the wrist went 25 px and then another 25 px to the right of the anchor: the
\* first frame was absorbed (the anchor is still W0), the second one shifts a
\* set that holds a voxel
C7_Witness ==
    \E e \in Entries :
        /\ e.grabbing /\ e.prev.grab
        /\ e.anchor = WristPx(W0) /\ e.prev.pos = WristPx(W25) /\ e.pos = WristPx(W50)
        /\ e.cmd[1] = "shiftAll"
        /\ e.before # {}

\* C8  Grab shift computation: on a grabbing frame with the anchor set and the
\* wrist more than one cell from it on some axis, the command is
\* shiftAll(round(dx/gridSize), round(dy/gridSize)), every key of the set is
\* moved by it, and the anchor becomes the wrist position; a move of 50 px to
\* the right gives shiftAll(1, 0).
C8_GrabShift ==
    \A e \in Entries : (e.grabbing /\ e.anchor # null /\ ~WithinCell(e)) =>
        /\ e.cmd[1] = "shiftAll"
        /\ IsNearest(e.cmd[2], DX(e))
        /\ IsNearest(e.cmd[3], DY(e))
        /\ Pairs(e.after) = { <<p[1] + e.cmd[2], p[2] + e.cmd[3]>> : p \in Pairs(e.before) }
        /\ e.post.lastHandPos = e.pos
        /\ (DX(e) = 50 * PxScale /\ DY(e) = 0) => e.cmd = <<"shiftAll", 1, 0>>

C8_Witness ==
    \E e \in Entries :
        /\ e.grabbing /\ e.anchor # null
        /\ DX(e) = 50 * PxScale /\ DY(e) = 0
        /\ e.cmd = <<"shiftAll", 1, 0>>
        /\ e.before = {<<"1", "6", ",", "9">>}
        /\ e.after = {<<"1", "7", ",", "9">>}

\* normalized index fingertip of the hand of entry e
IndexTipOf(e) == Plus(e.wrist, PoseOffsets[e.pose].indexTip)

\* pixel p (lattice pixels) lies in grid cell g
InCell(p, g) == g * gridSizePx <= p /\ p < (g + 1) * gridSizePx

\* C9  Pinch-to-stamp: a hand classified Pinch (not Fist) and not grabbing adds
\* exactly the key (floor(pixelX/gridSize), floor(pixelY/gridSize)) with
\* pixelX = (1 - index.x) * canvasWidth and pixelY = index.y * canvasHeight,
\* and changes nothing else of the set; the index tip (0.50, 0.503) stamps (16,9).
C9_PinchStamps ==
    \A e \in Entries : (e.isPinching /\ ~e.isFist /\ ~e.grabbing) =>
        /\ e.tip[1] * (Unit \div PxScale) = (Unit - IndexTipOf(e)[1]) * canvasWidth
        /\ e.tip[2] * (Unit \div PxScale) = IndexTipOf(e)[2] * canvasHeight
        /\ \E gx \in 0..(canvasWidth \div gridSize), gy \in 0..(canvasHeight \div gridSize) :
              /\ InCell(e.tip[1], gx) /\ InCell(e.tip[2], gy)
              /\ e.cmd = <<"stamp", KeyOf(gx, gy)>>
              /\ e.after = e.before \cup {KeyOf(gx, gy)}
        /\ IndexTipOf(e) = <<Unit \div 2, (503 * Unit) \div 1000>>
              => e.cmd = <<"stamp", <<"1", "6", ",", "9">>>>

C9_Witness ==
    \E e \in Entries :
        /\ e.isPinching /\ ~e.isFist
        /\ IndexTipOf(e) = <<Unit \div 2, (503 * Unit) \div 1000>>
        /\ <<"1", "6", ",", "9">> \notin e.before
        /\ e.after = e.before \cup {<<"1", "6", ",", "9">>}
        /\ e.before # {}

\* C10  Idempotent stamping: stamping a key that the set already holds leaves
\* the set unchanged, and two stamps of one key (by two hands of one frame, or
\* in successive frames) give the set that one stamp gives.
C10_StampIdempotent ==
    /\ \A e \in Entries : e.cmd[1] = "stamp" =>
          /\ e.cmd[2] \in e.after
          /\ e.cmd[2] \in e.before => e.after = e.before
    /\ (Len(trace) = 2 /\ trace[1].cmd[1] = "stamp" /\ trace[2].cmd = trace[1].cmd)
          => trace[2].after = trace[1].after

\* both hands of a frame stamp the cell that an earlier frame stamped already
C10_Witness ==
    /\ Len(trace) = 2
    /\ trace[1].cmd[1] = "stamp"
    /\ trace[2].cmd = trace[1].cmd
    /\ trace[1].cmd[2] \in trace[1].before
    /\ Cardinality(trace[1].before) = 2
    /\ voxels = trace[1].before

----------------------------------------------------------------------------
(* The shift of the voxel set as a function of the set: lines 156-163 applied
   to sets and shifts drawn from small ranges *)

\* keys of cells around the origin, one of them left of the canvas
StoreKeys == {KeyOf(0, 0), KeyOf(1, 0), KeyOf(-1, 2)}
Shifts == {<<0, 0>>, <<1, 0>>, <<-1, 0>>, <<0, -1>>, <<-2, 3>>}

InitStore ==
    /\ voxels \in SUBSET StoreKeys
    /\ fistStartTime = null
    /\ isGrabbing = FALSE
    /\ lastHandPos = null
    /\ now = StartTime
    /\ nFrames = 0
    /\ last = "init"
    /\ trace = <<>>
    /\ seen = [id \in HandIds |-> Unseen]
    /\ fresh = Pairs(voxels)
    /\ wiped = [on |-> FALSE, keys |-> {}]
    /\ grab = NoGrab(FALSE)

\* the block that builds newVoxels and assigns it to voxelsRef.current;
\* the history keeps the last two shifts
shiftAll(shiftX, shiftY) ==
    /\ nFrames < MaxFrames
    /\ voxels' = ShiftVoxels(voxels, shiftX, shiftY)
    /\ trace' = (IF trace = <<>> THEN <<>> ELSE <<trace[Len(trace)]>>)
                \o <<[cmd |-> <<"shiftAll", shiftX, shiftY>>, before |-> voxels,
                      after |-> ShiftVoxels(voxels, shiftX, shiftY)]>>
    /\ nFrames' = nFrames + 1
    /\ last' = "shiftAll"
    /\ fresh' = MovedBy(fresh, shiftX, shiftY)
    /\ UNCHANGED <<fistStartTime, isGrabbing, lastHandPos, now, seen, wiped, grab>>

NextStore == \E d \in Shifts : shiftAll(d[1], d[2])

SpecStore == InitStore /\ [][NextStore]_vars

\* C11  Shift is a group action: shifting by (dx1,dy1) and then by (dx2,dy2)
\* gives the set that one shift by (dx1+dx2, dy1+dy2) gives, a shift by (0,0)
\* leaves the set unchanged, and every key (x,y) becomes (x+dx, y+dy), also at
\* negative coordinates.
C11_ShiftGroupAction ==
    /\ \A e \in Entries :
          /\ Pairs(e.after) = MovedBy(Pairs(e.before), e.cmd[2], e.cmd[3])
          /\ e.cmd = <<"shiftAll", 0, 0>> => e.after = e.before
    /\ Len(trace) = 2 =>
          trace[2].after = ShiftVoxels(trace[1].before,
                                       trace[1].cmd[2] + trace[2].cmd[2],
                                       trace[1].cmd[3] + trace[2].cmd[3])

\* three keys shifted by (-2,3) and then by (-1,0), all ending left of the canvas
C11_Witness ==
    /\ Len(trace) = 2
    /\ trace[1].before = {<<"0", ",", "0">>, <<"1", ",", "0">>, <<"-", "1", ",", "2">>}
    /\ trace[1].cmd = <<"shiftAll", -2, 3>>
    /\ trace[2].cmd = <<"shiftAll", -1, 0>>
    /\ trace[2].after = {<<"-", "3", ",", "3">>, <<"-", "2", ",", "3">>,
                         <<"-", "4", ",", "5">>}

----------------------------------------------------------------------------
(* Stamps, a grab that carries them off the canvas, and the clear button *)

\* Wrists of a pinching hand whose index fingertip is over cell (1,0) and (2,0)
P1 == <<124000, 30000>>
P2 == <<120000, 30000>>
\* Wrists of a fist, from W0: 200 px to the left and 45 px down (5 cells left,
\* 1 down), and 112.5 px up (3 cells up)
WFarL == <<84000, 98000>>
WUp == <<64000, 70000>>

MoveFrames == FramesOf(HandsOf("A", {"pinch"}, {P1, P2})
                          \cup HandsOf("A", {"fist"}, {W0, WFarL, WUp})
                          \cup HandsOf("A", {"open"}, {W0}), {})

\* the state after construction, with the keys removed by a clear recorded
InitMove ==
    /\ voxels = {}
    /\ fistStartTime = null
    /\ isGrabbing = FALSE
    /\ lastHandPos = null
    /\ now = StartTime
    /\ nFrames = 0
    /\ last = "init"
    /\ trace = <<>>
    /\ seen = [id \in HandIds |-> Unseen]
    /\ fresh = {}
    /\ wiped = [on |-> TRUE, keys |-> {}]
    /\ grab = NoGrab(FALSE)

NextMove ==
    \/ \E hands \in MoveFrames, dt \in Deltas : onResults(hands, dt)
    \/ clearCanvas

SpecMove == InitMove /\ [][NextMove]_vars

\* C12  Clear: after clearCanvas the store is empty whatever it held, and after
\* any later stamps and shifts it holds exactly the cells that the same commands
\* put into a store created empty at the clear (fresh), each under one key; so
\* no key from before the clear comes back unless it is stamped again.
C12_ClearThenFresh ==
    /\ last = "clear" => voxels = {}
    /\ Pairs(voxels) = fresh
    /\ Cardinality(voxels) = Cardinality(fresh)

\* cell (1,0) was stamped and cleared; then cell (2,0) was stamped and a grab
\* moved it to (-3,1)
C12_Witness ==
    /\ wiped.keys = {KeyOf(1, 0)}
    /\ last = "frame"
    /\ \E e \in Entries : e.cmd = <<"shiftAll", -5, 1>> /\ e.before = {KeyOf(2, 0)}
    /\ voxels = {KeyOf(-3, 1)}
    /\ fresh = {<<-3, 1>>}

----------------------------------------------------------------------------
(* The grab, frame by frame *)

Absorbed(e) == e.grabbing /\ e.anchor # null /\ WithinCell(e)

\* C14  Sub-threshold frame effect: a grabbing frame with the anchor set and
\* the wrist at most one cell from it on both axes leaves the store and the
\* anchor unchanged, and the next hand processed while grabbing measures its
\* displacement from that same anchor.
C14_SubThresholdFrame ==
    [][/\ \A i \in 1..Len(trace') :
             Absorbed(trace'[i]) =>
                 /\ trace'[i].after = trace'[i].before
                 /\ trace'[i].post.lastHandPos = trace'[i].anchor
       /\ (trace # <<>> /\ trace' # <<>> /\ last' = "frame"
             /\ Absorbed(trace[Len(trace)]) /\ trace'[1].grabbing) =>
                 trace'[1].anchor = trace[Len(trace)].anchor]_vars

\* 25 px and then exactly 40 px to the right of the anchor: both frames are
\* absorbed and the second one is still measured from W0
C14_Witness ==
    \E e \in Entries :
        /\ e.grabbing /\ e.prev.grab
        /\ e.anchor = WristPx(W0) /\ e.prev.pos = WristPx(W25) /\ e.pos = WristPx(W40)
        /\ e.cmd = NoCmd /\ e.post.lastHandPos = WristPx(W0)
        /\ e.before # {} /\ e.after = e.before

IsShift(e) == e.cmd[1] = "shiftAll"

\* C15 as stated  Per-axis jitter absorption: a component of a shiftAll is
\* non-zero only if the displacement on that axis exceeds one cell.
C15_PerAxisAbsorption ==
    \A e \in Entries : IsShift(e) =>
        /\ e.cmd[2] # 0 => Abs(DX(e)) > gridSizePx
        /\ e.cmd[3] # 0 => Abs(DY(e)) > gridSizePx

\* C15 amended  A shiftAll is issued only when the displacement exceeds one
\* cell on at least one axis, and a component is non-zero only if the
\* displacement on that axis is at least half a cell.
C15_HalfCellPerAxis ==
    \A e \in Entries : IsShift(e) =>
        /\ Abs(DX(e)) > gridSizePx \/ Abs(DY(e)) > gridSizePx
        /\ e.cmd[2] # 0 => 2 * Abs(DX(e)) >= gridSizePx
        /\ e.cmd[3] # 0 => 2 * Abs(DY(e)) >= gridSizePx

\* 50 px to the right and 28.125 px down: the grid moves one cell down as well
C15_Witness ==
    \E e \in Entries :
        /\ IsShift(e) /\ e.anchor # null
        /\ DX(e) = 50 * PxScale /\ DY(e) = 45 * 1000
        /\ e.cmd = <<"shiftAll", 1, 1>>

\* C16  Shift output bound: the store after one hand is the store before it
\* moved by one integer shift with a non-zero component, and only when the
\* hand is classified as a fist and processed with grabbing true; a hand
\* processed with grabbing false moves no key.
C16_ShiftOutputBound ==
    \A e \in Entries :
        /\ IsShift(e) =>
              /\ e.isFist /\ e.grabbing
              /\ e.cmd[2] \in Int /\ e.cmd[3] \in Int
              /\ e.cmd[2] # 0 \/ e.cmd[3] # 0
              /\ Pairs(e.after) = MovedBy(Pairs(e.before), e.cmd[2], e.cmd[3])
        /\ ~e.grabbing => ~IsShift(e) /\ e.before \subseteq e.after

\* 60 px to the left: one shift by (-1, 0) of a store that holds a voxel
C16_Witness ==
    \E e \in Entries :
        /\ e.isFist /\ e.grabbing /\ e.anchor # null
        /\ DX(e) = -60 * PxScale
        /\ e.cmd = <<"shiftAll", -1, 0>>
        /\ e.before = {<<"1", "6", ",", "9">>}
        /\ e.after = {<<"1", "5", ",", "9">>}

\* C18  Carry-state invariant: after every handler, and after every hand of a
\* frame, grabbing true implies that the fist timer is set, and an anchor set
\* implies grabbing true.
C18_CarryStateInvariant ==
    /\ isGrabbing => ~NoFistStart(fistStartTime)
    /\ lastHandPos # null => isGrabbing
    /\ \A e \in Entries :
          /\ e.post.isGrabbing => ~NoFistStart(e.post.fistStartTime)
          /\ e.post.lastHandPos # null => e.post.isGrabbing

\* a frame of two fists that ends with the flag, the timer and the anchor set,
\* the anchor being the wrist of the second hand
C18_Witness ==
    /\ Len(trace) = 2
    /\ isGrabbing /\ fistStartTime # null
    /\ lastHandPos = trace[2].pos
    /\ trace[1].post.lastHandPos = trace[1].pos

----------------------------------------------------------------------------
(* The number of voxels *)

\* C19  Cardinality: a shiftAll leaves the number of keys unchanged (also when
\* keys move to negative columns or rows), a stamp raises it by at most one and
\* never lowers it, and over a whole handler the number goes down only in
\* clearCanvas.
C19_Cardinality ==
    [][/\ \A i \in 1..Len(trace') :
             /\ IsShift(trace'[i]) =>
                   Cardinality(trace'[i].after) = Cardinality(trace'[i].before)
             /\ trace'[i].cmd[1] = "stamp" =>
                   /\ Cardinality(trace'[i].after) >= Cardinality(trace'[i].before)
                   /\ Cardinality(trace'[i].after) <= Cardinality(trace'[i].before) + 1
       /\ Cardinality(voxels') < Cardinality(voxels) => last' = "clear"]_vars

\* two voxels carried 5 cells to the left of where they were stamped, both to
\* negative columns
C19_Witness ==
    \E e \in Entries :
        /\ e.cmd = <<"shiftAll", -5, 1>>
        /\ e.before = {KeyOf(1, 0), KeyOf(2, 0)}
        /\ e.after = {<<"-", "4", ",", "1">>, <<"-", "3", ",", "1">>}
        /\ voxels = e.after

----------------------------------------------------------------------------
(* A grab that walks to the right in steps of one cell and a half *)

\* Wrists 59, 118 and 158 px to the right of W0
W59 == <<58100, 90000>>
W118 == <<52200, 90000>>
W158 == <<48200, 90000>>

DriftFrames == FramesOf(HandsOf("A", {"fist"}, {W0, W59, W118, W158})
                           \cup HandsOf("A", {"open"}, {W0}), {})

\* the state after construction, with the grab in progress recorded
InitDrift ==
    /\ voxels = {}
    /\ fistStartTime = null
    /\ isGrabbing = FALSE
    /\ lastHandPos = null
    /\ now = StartTime
    /\ nFrames = 0
    /\ last = "init"
    /\ trace = <<>>
    /\ seen = [id \in HandIds |-> Unseen]
    /\ fresh = {}
    /\ wiped = [on |-> FALSE, keys |-> {}]
    /\ grab = NoGrab(TRUE)

NextDrift ==
    \/ \E hands \in DriftFrames, dt \in Deltas : onResults(hands, dt)
    \/ clearCanvas

SpecDrift == InitDrift /\ [][NextDrift]_vars

\* On axis k: the wrist's displacement since the first anchor of the grab
\* minus gridSize times the sum of the shifts issued, in lattice pixels
Drift(e, k) == (e.pos[k] - grab.origin[k]) - gridSizePx * grab.sum[k]

\* C20 as stated  Tracking accuracy: during a grab the shifts issued, times
\* gridSize, differ from the wrist's displacement since the first anchor by at
\* most one and a half cells on each axis.
C20_BoundedDrift ==
    \A e \in Entries : (grab.held /\ e.grabbing) =>
        \A k \in {1, 2} : 2 * Abs(Drift(e, k)) <= 3 * gridSizePx

\* C20 amended  During a grab the difference is at most one cell plus half a
\* cell for every shift issued so far in the grab.
C20_DriftPerShift ==
    \A e \in Entries : (grab.held /\ e.grabbing) =>
        \A k \in {1, 2} : 2 * Abs(Drift(e, k)) <= (grab.n + 2) * gridSizePx

\* 59 px, 59 px and 40 px to the right: two shifts of one cell, and the wrist
\* is 158 px from the first anchor, 78 px ahead of the grid
C20_Witness ==
    \E e \in Entries :
        /\ grab.held /\ e.grabbing
        /\ grab.origin = WristPx(W0) /\ e.pos = WristPx(W158)
        /\ grab.sum = <<2, 0>> /\ grab.n = 2
        /\ Drift(e, 1) = 78 * PxScale

====
